---------------------------- MODULE Spec2Model ----------------------------
(***************************************************************************)
(* The market-making simulation engine of src/App.tsx (the React component *)
(* App: its simulation state, the setInterval tick of the useEffect, the   *)
(* start/stop toggle, the reset button and the two parameter sliders).     *)
(*                                                                         *)
(* Numbers.  JavaScript numbers are modelled in fixed point:               *)
(*   prices and cash  in units of 1/PriceScale (0.001),                    *)
(*   riskAversion     in units of 1/GammaScale (0.01, the slider step),    *)
(*   volatility       in units of 1/SigmaScale (0.1, the slider step),     *)
(*   Math.random()    in units of 1/DrawScale  (0.01),                     *)
(*   Math.exp results in units of 1/ExpScale   (0.0001).                   *)
(* With these units every product of the tick is an integer, so the only   *)
(* rounding of the model is inside Exp.  Floating-point rounding of the    *)
(* additions is not modelled.                                              *)
(*                                                                         *)
(* Scheduling.  JavaScript runs one task at a time, and React commits the  *)
(* state updates of a discrete event (click, change) and re-runs the       *)
(* effect before the event returns; so every handler below is one atomic   *)
(* action, the effect clean-up and re-run included.                        *)
(***************************************************************************)
EXTENDS Integers, Sequences, FiniteSets

VARIABLES
    simRunning,    \* useState(false)
    riskAversion,  \* useState(0.1), in 1/GammaScale
    volatility,    \* useState(0.5), in 1/SigmaScale
    simState,      \* useState<SimState>
    marketData,    \* useState<any[]>([]): the history buffer
    stats,         \* useState<SimulationStats>
    timers,        \* the interval timers armed in the window
    interval,      \* the handle held by the current effect (0 = undefined)
    time,          \* Date.now() as the ordinal of the last tick
    fills,         \* history variable: the fills of the last tick
    published,     \* history variable: every snapshot since the last reset
    clearedDue,    \* history variable: the last operation cleared a due timer
    lastOp         \* history variable: the last operation that ran

vars == <<simRunning, riskAversion, volatility, simState, marketData, stats,
          timers, interval, time, fills, published, clearedDue,
          lastOp>>

-----------------------------------------------------------------------------
(* Units *)

PriceScale == 1000
GammaScale == 100
SigmaScale == 10
DrawScale == 100
ExpScale == 10000
\* the argument of Math.exp, in units of 1/XScale
XScale == 2000

(* Program constants *)

INITIAL_PRICE == 1000 * PriceScale
INITIAL_CASH == 10000 * PriceScale
\* myBid: 999.5, myAsk: 1000.5 of the initial and the reset simState
INITIAL_BID == 999500
INITIAL_ASK == 1000500
\* useState(0.1), useState(0.5)
INITIAL_GAMMA == 10
INITIAL_SIGMA == 5
\* inventorySkew = ... * 5
SkewMultiplier == 5
\* halfSpread = volatility * 0.8, in tenths
SpreadTenths == 8
\* Math.exp(-1.5 * ...), in tenths
DecayTenths == 15
\* ... < probHit * 0.3, in tenths
DampeningTenths == 3
\* if (newData.length > 60) newData.shift()
HistoryCapacity == 60

(* Bounds of the model *)

\* ticks explored with every draw free
MaxTicks == 2
\* ticks explored with the draws taken from a fixed stream
MaxLongTicks == 62
\* ticks explored with every draw 0 (the price falls by the volatility)
MaxDriftTicks == 502
\* ticks explored with every draw 0.5
MaxFixedTicks == 64
\* ticks explored with the shock draw 0.5 and every fill draw 0 or 0.99
MaxInventoryTicks == 7

(* Inputs *)

\* slider positions of riskAversion (0.10, 0.20) and volatility (0.5, 1.0)
GammaValues == {10, 20}
SigmaValues == {5, 10}
\* values of Math.random(): 0, 0.5, 0.99
ShockDraws == {0, 50, 99}
FillDraws == {0, 50, 99}
\* the top of the volatility slider: max="2.0"
SigmaMax == 20

-----------------------------------------------------------------------------
(* Math.exp in fixed point *)

\* e^1 .. e^12 in units of 1/ExpScale
EPow == <<27183, 73891, 200855, 545982, 1484132, 4034288, 10966332,
          29809580, 81030839, 220264658, 598741417, 1627547914>>

\* exp(f / XScale) for 0 <= f < XScale: the Taylor series to the 10th
\* term, in Horner form
RECURSIVE Horner(_, _)
Horner(f, k) ==
    IF k > 10 THEN ExpScale
    ELSE ExpScale + (f * Horner(f, k + 1)) \div (XScale * k)

ExpFrac(f) == Horner(f, 1)

\* exp(X / XScale) in units of 1/ExpScale.  Math.exp is strictly positive
\* on the modelled range, so the result is at least one unit.
Exp(X) ==
    LET n == X \div XScale
        t == ExpFrac(X % XScale)
    IN  IF n = 0 THEN t
        ELSE IF n < -12 THEN 1
        ELSE IF n < 0
             THEN LET q == (t * ExpScale) \div EPow[-n]
                  IN  IF q < 1 THEN 1 ELSE q
        ELSE (EPow[n] \div ExpScale) * t
             + ((EPow[n] % ExpScale) * t) \div ExpScale

-----------------------------------------------------------------------------
(* The tick, step by step (the updater passed to setSimState) *)

\* a slip: the draw not centred
ShockUncentred(u, s) == (2 * u * s * PriceScale) \div (DrawScale * SigmaScale)

\* const shock = (Math.random() - 0.5) * volatility * 2
Shock(u, s) == ((2 * u - DrawScale) * s * PriceScale) \div (DrawScale * SigmaScale)

\* a slip: a floor of 0.01 under the price
NewMidFloored(mid, u, s) ==
    IF mid + Shock(u, s) < 10 THEN 10 ELSE mid + Shock(u, s)

\* const newMid = prev.midPrice + shock
NewMid(mid, u, s) == mid + Shock(u, s)

\* a slip: the variance in place of the volatility
InventorySkewSigmaSquared(inv, g, s) ==
    (inv * g * s * s * SkewMultiplier * PriceScale)
        \div (GammaScale * SigmaScale * SigmaScale)

\* const inventorySkew = prev.inventory * riskAversion * volatility * 5
InventorySkew(inv, g, s) ==
    (inv * g * s * SkewMultiplier * PriceScale) \div (GammaScale * SigmaScale)

\* a slip of sign: the skew added
NewReservationSkewAdded(newMid, inv, g, s) == newMid + InventorySkew(inv, g, s)

\* const newReservation = newMid - inventorySkew
NewReservation(newMid, inv, g, s) == newMid - InventorySkew(inv, g, s)

\* a slip: 0.08 for 0.8
HalfSpreadNarrow(s) == (s * SpreadTenths * PriceScale) \div (SigmaScale * 100)

\* const halfSpread = volatility * 0.8
HalfSpread(s) == (s * SpreadTenths * PriceScale) \div (SigmaScale * 10)

\* a slip of copying: the bid computed as the ask is
NewBidAsAsk(res, s) == res + HalfSpread(s)

\* const newBid = newReservation - halfSpread
NewBid(res, s) == res - HalfSpread(s)

\* const newAsk = newReservation + halfSpread
NewAsk(res, s) == res + HalfSpread(s)

\* a slip: a decay of 1.0
ProbHitSlowDecay(d) == Exp((0 - d * XScale) \div PriceScale)

\* Math.exp(-1.5 * d), d a price distance
ProbHit(d) == Exp((0 - DecayTenths * d * XScale) \div (10 * PriceScale))

\* probHit * 0.3, in units of 1/(10 * ExpScale)
FillThreshold(prob) == prob * DampeningTenths

\* Math.random() < probHit * 0.3
Hit(u, prob) == u * ((10 * ExpScale) \div DrawScale) < FillThreshold(prob)

\* the two fill branches: nextInv -= 1 on an ask fill, nextInv += 1 on a
\* bid fill
NextInv(inv, askHit, bidHit) ==
    inv - (IF askHit THEN 1 ELSE 0) + (IF bidHit THEN 1 ELSE 0)

\* a slip of sign: an ask fill paid for instead of paid
NextCashAskPaid(cash, askHit, bidHit, ask, bid) ==
    cash - (IF askHit THEN ask ELSE 0) - (IF bidHit THEN bid ELSE 0)

\* nextCash += newAsk on an ask fill, nextCash -= newBid on a bid fill
NextCash(cash, askHit, bidHit, ask, bid) ==
    cash + (IF askHit THEN ask ELSE 0) - (IF bidHit THEN bid ELSE 0)

\* tradeOccurred = true in either branch
TradeOccurred(askHit, bidHit) == askHit \/ bidHit

\* const markToMarketVal = nextCash + (nextInv * newMid);
\* const pnl = markToMarketVal - INITIAL_CASH
Pnl(cash, inv, mid) == cash + inv * mid - INITIAL_CASH

\* a slip: setStats called outside the if
UpdateStatsUnconditional(s, tradeOccurred, newMid, pnl) ==
    [s EXCEPT !.trades = @ + 1, !.volume = @ + newMid, !.pnl = pnl]

\* a slip: the pnl published by every tick
UpdateStatsPnlAlways(s, tradeOccurred, newMid, pnl) ==
    IF tradeOccurred
    THEN [s EXCEPT !.trades = @ + 1, !.volume = @ + newMid, !.pnl = pnl]
    ELSE [s EXCEPT !.pnl = pnl]

\* if (tradeOccurred) setStats(s => ({...s, trades: s.trades + 1,
\*                                   volume: s.volume + newMid, pnl: pnl}))
UpdateStats(s, tradeOccurred, newMid, pnl) ==
    IF tradeOccurred
    THEN [s EXCEPT !.trades = @ + 1, !.volume = @ + newMid, !.pnl = pnl]
    ELSE s

\* a slip: pop() for shift(), the newest snapshot dropped
PushSnapshotPop(d, snap) ==
    LET newData == Append(d, snap)
    IN  IF Len(newData) > HistoryCapacity
        THEN SubSeq(newData, 1, Len(newData) - 1)
        ELSE newData

\* setMarketData(d => { const newData = [...d, snapshot];
\*                      if (newData.length > 60) newData.shift();
\*                      return newData; })
PushSnapshot(d, snap) ==
    LET newData == Append(d, snap)
    IN  IF Len(newData) > HistoryCapacity THEN Tail(newData) ELSE newData

-----------------------------------------------------------------------------
(* Initial values *)

\* a slip: the initial quotes those of the formula at volatility 0.5
InitialSimStateQuoted ==
    [midPrice |-> INITIAL_PRICE, reservationPrice |-> INITIAL_PRICE,
     inventory |-> 0, cash |-> INITIAL_CASH,
     myBid |-> NewBid(INITIAL_PRICE, INITIAL_SIGMA),
     myAsk |-> NewAsk(INITIAL_PRICE, INITIAL_SIGMA)]

InitialSimState ==
    [midPrice |-> INITIAL_PRICE, reservationPrice |-> INITIAL_PRICE,
     inventory |-> 0, cash |-> INITIAL_CASH,
     myBid |-> INITIAL_BID, myAsk |-> INITIAL_ASK]

InitialStats == [pnl |-> 0, trades |-> 0, volume |-> 0, latency |-> 0]

NoFills == [ask |-> FALSE, bid |-> FALSE]

-----------------------------------------------------------------------------
(* The effect of useEffect(..., [simRunning, riskAversion, volatility]) *)

\* a slip: the clean-up missing
ClearIntervalMissing(ts, handle) == ts

\* clearInterval(handle); clearInterval(undefined) clears nothing
ClearInterval(ts, handle) == {t \in ts : t.id # handle}

\* the handle window.setInterval returns: one no armed timer has
FreshHandle(ts) ==
    CHOOSE n \in 1..(Cardinality(ts) + 1) : \A t \in ts : t.id # n

\* a slip: the test of simRunning missing
TimersAfterEffectUnguarded(ts, handle, running, g, s) ==
    LET cleared == ClearInterval(ts, handle)
    IN  cleared \cup {[id |-> FreshHandle(cleared), gamma |-> g,
                       sigma |-> s, due |-> FALSE]}

\* The clean-up of the previous effect, then the effect under the new
\* values: if (simRunning) interval = window.setInterval(callback, 50).
\* The callback closes over riskAversion and volatility of its render.
TimersAfterEffect(ts, handle, running, g, s) ==
    LET cleared == ClearInterval(ts, handle)
    IN  IF running
        THEN cleared \cup {[id |-> FreshHandle(cleared), gamma |-> g,
                            sigma |-> s, due |-> FALSE]}
        ELSE cleared

\* a slip: the handle of the new timer not kept
IntervalAfterEffectLost(ts, handle, running) == 0

\* let interval: the handle the clean-up of this effect will clear
IntervalAfterEffect(ts, handle, running) ==
    IF running THEN FreshHandle(ClearInterval(ts, handle)) ELSE 0

ReRunEffect(running, g, s) ==
    /\ timers' = TimersAfterEffect(timers, interval, running, g, s)
    /\ interval' = IntervalAfterEffect(timers, interval, running)
    /\ clearedDue' = (\E t \in timers : t.id = interval /\ t.due)

-----------------------------------------------------------------------------
(* Math.random() taken from a fixed stream: the i-th value *)

Stream(i) == (66 * i + 99) % DrawScale

\* the three draws of the tick after `t` ticks: shock, ask, bid
StreamDraws(t) == <<Stream(3 * t), Stream(3 * t + 1), Stream(3 * t + 2)>>

FreeDraws == ShockDraws \X FillDraws \X FillDraws

-----------------------------------------------------------------------------
(* State machine *)

Init ==
    /\ simRunning = FALSE
    /\ riskAversion = INITIAL_GAMMA
    /\ volatility = INITIAL_SIGMA
    /\ simState = InitialSimState
    /\ marketData = <<>>
    /\ stats = InitialStats
    /\ timers = {}
    /\ interval = 0
    /\ time = 0
    /\ fills = NoFills
    /\ published = <<>>
    /\ clearedDue = FALSE
    /\ lastOp = "init"

\* a slip: start() re-initialising the simulation state
ToggleSimRunningRestart ==
    /\ simRunning' = ~simRunning
    /\ ReRunEffect(~simRunning, riskAversion, volatility)
    /\ lastOp' = IF simRunning THEN "stop" ELSE "start"
    /\ simState' = IF simRunning THEN simState ELSE InitialSimState
    /\ UNCHANGED <<riskAversion, volatility, marketData, stats,
                   time, fills, published>>

\* onClick={() => setSimRunning(!simRunning)}, then the effect
ToggleSimRunning ==
    /\ simRunning' = ~simRunning
    /\ ReRunEffect(~simRunning, riskAversion, volatility)
    /\ lastOp' = IF simRunning THEN "stop" ELSE "start"
    /\ UNCHANGED <<riskAversion, volatility, simState, marketData, stats,
                   time, fills, published>>

\* a slip: setMarketData([]) missing
ResetKeepsHistory ==
    /\ stats' = InitialStats
    /\ simState' = InitialSimState
    /\ fills' = NoFills
    /\ clearedDue' = FALSE
    /\ lastOp' = "reset"
    /\ UNCHANGED <<simRunning, riskAversion, volatility, timers, interval,
                   time, marketData, published>>

\* a slip: reset() also stopping the simulation
ResetStops ==
    /\ stats' = InitialStats
    /\ simState' = InitialSimState
    /\ marketData' = <<>>
    /\ fills' = NoFills
    /\ published' = <<>>
    /\ simRunning' = FALSE
    /\ timers' = TimersAfterEffect(timers, interval, FALSE, riskAversion,
                                   volatility)
    /\ interval' = 0
    /\ clearedDue' = FALSE
    /\ lastOp' = "reset"
    /\ UNCHANGED <<riskAversion, volatility, time>>

\* the reset button: setStats, setSimState, setMarketData; no dependency
\* of the effect changes, so the effect does not re-run
Reset ==
    /\ stats' = InitialStats
    /\ simState' = InitialSimState
    /\ marketData' = <<>>
    /\ fills' = NoFills
    /\ published' = <<>>
    /\ clearedDue' = FALSE
    /\ lastOp' = "reset"
    /\ UNCHANGED <<simRunning, riskAversion, volatility, timers, interval,
                   time>>

\* a slip: the slider requoting at once
SetRiskAversionRequoting(v) ==
    /\ v # riskAversion
    /\ riskAversion' = v
    /\ ReRunEffect(simRunning, v, volatility)
    /\ lastOp' = "setRiskAversion"
    /\ simState' =
          LET res == NewReservation(simState.midPrice, simState.inventory,
                                    v, volatility)
          IN  [simState EXCEPT !.reservationPrice = res,
                               !.myBid = NewBid(res, volatility),
                               !.myAsk = NewAsk(res, volatility)]
    /\ UNCHANGED <<simRunning, volatility, marketData, stats,
                   time, fills, published>>

\* onChange={(e) => setRiskAversion(parseFloat(e.target.value))}, then the
\* effect; the slider reports a change of value only
SetRiskAversion(v) ==
    /\ v # riskAversion
    /\ riskAversion' = v
    /\ ReRunEffect(simRunning, v, volatility)
    /\ lastOp' = "setRiskAversion"
    /\ UNCHANGED <<simRunning, volatility, simState, marketData, stats,
                   time, fills, published>>

\* a slip: volatility missing from the dependency list of the effect, so
\* the armed callback keeps the volatility of its render
SetVolatilityStaleClosure(v) ==
    /\ v # volatility
    /\ volatility' = v
    /\ clearedDue' = FALSE
    /\ lastOp' = "setVolatility"
    /\ UNCHANGED <<simRunning, riskAversion, simState, marketData, stats,
                   time, fills, published, timers, interval>>

\* onChange={(e) => setVolatility(parseFloat(e.target.value))}, then the
\* effect
SetVolatility(v) ==
    /\ v # volatility
    /\ volatility' = v
    /\ ReRunEffect(simRunning, riskAversion, v)
    /\ lastOp' = "setVolatility"
    /\ UNCHANGED <<simRunning, riskAversion, simState, marketData, stats,
                   time, fills, published>>

\* 50 ms pass: an armed timer becomes due
TimerElapse ==
    /\ \E t \in timers :
          /\ ~t.due
          /\ timers' = (timers \ {t}) \cup {[t EXCEPT !.due = TRUE]}
    /\ clearedDue' = FALSE
    /\ lastOp' = "elapse"
    /\ UNCHANGED <<simRunning, riskAversion, volatility, simState,
                   marketData, stats, interval, time, fills, published>>

\* a slip: one draw deciding both fills
SimStateAfterSharedDraw(prev, g, s, draws) ==
    LET newMid == NewMid(prev.midPrice, draws[1], s)
        newReservation == NewReservation(newMid, prev.inventory, g, s)
        newBid == NewBid(newReservation, s)
        newAsk == NewAsk(newReservation, s)
        askHit == Hit(draws[2], ProbHit(newAsk - newMid))
        bidHit == Hit(draws[2], ProbHit(newMid - newBid))
    IN  [midPrice |-> newMid, reservationPrice |-> newReservation,
         inventory |-> NextInv(prev.inventory, askHit, bidHit),
         cash |-> NextCash(prev.cash, askHit, bidHit, newAsk, newBid),
         myBid |-> newBid, myAsk |-> newAsk]

\* a slip: the reservation price published for the inventory after the
\* fills
SimStateAfterRequoted(prev, g, s, draws) ==
    LET newMid == NewMid(prev.midPrice, draws[1], s)
        newReservation == NewReservation(newMid, prev.inventory, g, s)
        newBid == NewBid(newReservation, s)
        newAsk == NewAsk(newReservation, s)
        askHit == Hit(draws[2], ProbHit(newAsk - newMid))
        bidHit == Hit(draws[3], ProbHit(newMid - newBid))
        nextInv == NextInv(prev.inventory, askHit, bidHit)
    IN  [midPrice |-> newMid,
         reservationPrice |-> NewReservation(newMid, nextInv, g, s),
         inventory |-> nextInv,
         cash |-> NextCash(prev.cash, askHit, bidHit, newAsk, newBid),
         myBid |-> newBid, myAsk |-> newAsk]

\* the simState the updater returns
SimStateAfter(prev, g, s, draws) ==
    LET newMid == NewMid(prev.midPrice, draws[1], s)
        newReservation == NewReservation(newMid, prev.inventory, g, s)
        newBid == NewBid(newReservation, s)
        newAsk == NewAsk(newReservation, s)
        askHit == Hit(draws[2], ProbHit(newAsk - newMid))
        bidHit == Hit(draws[3], ProbHit(newMid - newBid))
    IN  [midPrice |-> newMid, reservationPrice |-> newReservation,
         inventory |-> NextInv(prev.inventory, askHit, bidHit),
         cash |-> NextCash(prev.cash, askHit, bidHit, newAsk, newBid),
         myBid |-> newBid, myAsk |-> newAsk]

\* the fills the updater decided
FillsOf(prev, g, s, draws) ==
    LET newMid == NewMid(prev.midPrice, draws[1], s)
        newReservation == NewReservation(newMid, prev.inventory, g, s)
    IN  [ask |-> Hit(draws[2], ProbHit(NewAsk(newReservation, s) - newMid)),
         bid |-> Hit(draws[3], ProbHit(newMid - NewBid(newReservation, s)))]

\* a slip: the quotes of the snapshot exchanged
SnapshotQuotesSwapped(now, next) ==
    [timestamp |-> now, price |-> next.midPrice,
     reservation |-> next.reservationPrice, bid |-> next.myAsk,
     ask |-> next.myBid, inventory |-> next.inventory]

\* the object appended to the chart data
Snapshot(now, next) ==
    [timestamp |-> now, price |-> next.midPrice,
     reservation |-> next.reservationPrice, bid |-> next.myBid,
     ask |-> next.myAsk, inventory |-> next.inventory]

\* one firing of the interval callback with the draws given: the updater
\* of setSimState, with the setStats and setMarketData it calls
TickWith(t, draws) ==
    LET next == SimStateAfter(simState, t.gamma, t.sigma, draws)
        f == FillsOf(simState, t.gamma, t.sigma, draws)
        pnl == Pnl(next.cash, next.inventory, next.midPrice)
        snap == Snapshot(time + 1, next)
    IN  /\ time' = time + 1
        /\ simState' = next
        /\ stats' = UpdateStats(stats, TradeOccurred(f.ask, f.bid),
                                next.midPrice, pnl)
        /\ marketData' = PushSnapshot(marketData, snap)
        /\ fills' = f
        /\ published' = Append(published, snap)
        /\ timers' = (timers \ {t}) \cup {[t EXCEPT !.due = FALSE]}
        /\ clearedDue' = FALSE
        /\ lastOp' = "tick"
        /\ UNCHANGED <<simRunning, riskAversion, volatility, interval>>

\* a tick with every draw free
Tick ==
    /\ time < MaxTicks
    /\ \E t \in timers : t.due /\ \E draws \in FreeDraws : TickWith(t, draws)

SetRiskAversionAny == \E v \in GammaValues : SetRiskAversion(v)

SetVolatilityAny == \E v \in SigmaValues : SetVolatility(v)

Next ==
    \/ ToggleSimRunning
    \/ Reset
    \/ SetRiskAversionAny
    \/ SetVolatilityAny
    \/ TimerElapse
    \/ Tick

Spec == Init /\ [][Next]_vars

-----------------------------------------------------------------------------
(* Long runs: the draws come from the fixed stream, and the parameters    *)
(* are configured before the run, while the history is empty.             *)

StreamTick ==
    /\ time < MaxLongTicks
    /\ \E t \in timers : t.due /\ TickWith(t, StreamDraws(time))

ConfigureRiskAversion == Len(marketData) = 0 /\ SetRiskAversionAny

ConfigureVolatility == Len(marketData) = 0 /\ SetVolatilityAny

NextLong ==
    \/ ToggleSimRunning
    \/ Reset
    \/ ConfigureRiskAversion
    \/ ConfigureVolatility
    \/ TimerElapse
    \/ StreamTick

SpecLong == Init /\ [][NextLong]_vars

-----------------------------------------------------------------------------
(* Falling price: the volatility is set to the top of its slider before   *)
(* the run, and Math.random() returns 0 at every call, so that every tick *)
(* lowers midPrice by the volatility and fills both quotes; in the first  *)
(* two ticks the two fill draws may also be 0.99, which fills neither,    *)
(* and in the first tick the shock draw may also be 0.5 or 0.99.          *)

DriftDraws(t) ==
    IF t = 0 THEN {<<u, a, a>> : u \in ShockDraws, a \in {0, 99}}
    ELSE IF t = 1 THEN {<<0, 0, 0>>, <<0, 99, 99>>}
    ELSE {<<0, 0, 0>>}

DriftTick ==
    /\ time < MaxDriftTicks
    /\ \E t \in timers :
          t.due /\ \E draws \in DriftDraws(time) : TickWith(t, draws)

ConfigureVolatilityMax == Len(marketData) = 0 /\ SetVolatility(SigmaMax)

NextDrift ==
    \/ ToggleSimRunning
    \/ ConfigureVolatilityMax
    \/ TimerElapse
    \/ DriftTick

SpecDrift == Init /\ [][NextDrift]_vars

-----------------------------------------------------------------------------
(* Fixed draws: Math.random() returns 0.5 at every call, and the          *)
(* parameters stay at their initial values 0.1 and 0.5.                   *)

FixedTick ==
    /\ time < MaxFixedTicks
    /\ \E t \in timers : t.due /\ TickWith(t, <<50, 50, 50>>)

NextFixed ==
    \/ ToggleSimRunning
    \/ Reset
    \/ TimerElapse
    \/ FixedTick

SpecFixed == Init /\ [][NextFixed]_vars

-----------------------------------------------------------------------------
(* Extreme fills: the parameters stay at their initial values 0.1 and 0.5, *)
(* the shock draw is 0.5 and each fill draw is 0 or 0.99, the least and    *)
(* the greatest value of Math.random() in the units of the model.          *)

ExtremeDraws == {<<50, a, b>> : a \in {0, 99}, b \in {0, 99}}

InventoryTick ==
    /\ time < MaxInventoryTicks
    /\ \E t \in timers :
          t.due /\ \E draws \in ExtremeDraws : TickWith(t, draws)

NextInventory ==
    \/ ToggleSimRunning
    \/ Reset
    \/ TimerElapse
    \/ InventoryTick

SpecInventory == Init /\ [][NextInventory]_vars

-----------------------------------------------------------------------------
(* The handlers without the sliders in front of them: onChange stores     *)
(* parseFloat(e.target.value) whatever it is, so the values handed to     *)
(* setRiskAversion and setVolatility include 0 and negative numbers (NaN  *)
(* and Infinity, which the handlers store as well, are not modelled).     *)

RawGammaValues == {0, 10}
RawSigmaValues == {0 - 5, 0, 5}

SetRiskAversionRaw == \E v \in RawGammaValues : SetRiskAversion(v)

SetVolatilityRaw == \E v \in RawSigmaValues : SetVolatility(v)

NextRaw ==
    \/ ToggleSimRunning
    \/ Reset
    \/ SetRiskAversionRaw
    \/ SetVolatilityRaw
    \/ TimerElapse
    \/ Tick

SpecRaw == Init /\ [][NextRaw]_vars

-----------------------------------------------------------------------------
(* Properties *)

Abs(x) == IF x < 0 THEN 0 - x ELSE x

\* a step is a tick exactly when it advances the time
TickStep == time' = time + 1

FillCount(f) == (IF f.ask THEN 1 ELSE 0) + (IF f.bid THEN 1 ELSE 0)

\* C1. Ledger conservation: every tick changes cash by the ask price of the
\* tick if the ask filled, minus the bid price of the tick if the bid
\* filled, and inventory by -1 per ask fill and +1 per bid fill; a tick
\* with no fill leaves cash and inventory unchanged.
C1_LedgerConservation ==
    [][TickStep =>
        /\ simState'.cash = simState.cash
                            + (IF fills'.ask THEN simState'.myAsk ELSE 0)
                            - (IF fills'.bid THEN simState'.myBid ELSE 0)
        /\ simState'.inventory = simState.inventory
                                 - (IF fills'.ask THEN 1 ELSE 0)
                                 + (IF fills'.bid THEN 1 ELSE 0)
        /\ (FillCount(fills') = 0 =>
                /\ simState'.cash = simState.cash
                /\ simState'.inventory = simState.inventory)]_vars

\* a tick that filled the ask only, after an earlier tick that filled
\* both sides or the bid
C1_Witness ==
    /\ lastOp = "tick"
    /\ fills.ask /\ ~fills.bid
    /\ stats.trades = 2
    /\ simState.cash # INITIAL_CASH

\* C2. Quote ordering: in every reachable state bid <= reservationPrice <=
\* ask, and neither is an equality unless volatility = 0.
C2_QuoteOrdering ==
    /\ simState.myBid <= simState.reservationPrice
    /\ simState.reservationPrice <= simState.myAsk
    /\ (simState.myBid = simState.reservationPrice => volatility = 0)
    /\ (simState.myAsk = simState.reservationPrice => volatility = 0)

\* quotes published by a tick that started with inventory, after the
\* volatility was changed
C2_Witness ==
    /\ lastOp = "tick"
    /\ simState.reservationPrice # simState.midPrice
    /\ volatility # INITIAL_SIGMA
    /\ simState.myAsk - simState.myBid = 2 * HalfSpread(volatility)

\* C3. Skew direction: a tick started with inventory > 0 publishes a
\* reservationPrice strictly below the new midPrice, one started with
\* inventory < 0 strictly above it, one started with inventory 0 equal to
\* it; and the gap is strictly larger than the skew of any inventory of
\* smaller magnitude under the same parameters.
C3_SkewDirection ==
    [][TickStep =>
        LET q == simState.inventory
            gap == simState'.midPrice - simState'.reservationPrice
        IN  /\ (q > 0 => gap > 0)
            /\ (q < 0 => gap < 0)
            /\ (q = 0 => gap = 0)
            /\ \A p \in (1 - Abs(q))..(Abs(q) - 1) :
                  Abs(InventorySkew(p, riskAversion, volatility)) < Abs(gap)
       ]_vars

\* a tick that started with an inventory of at least 3 units
C3_Witness ==
    /\ lastOp = "tick"
    /\ simState.midPrice - simState.reservationPrice
         > InventorySkew(2, riskAversion, volatility)

\* the last n elements of a sequence
LastN(seq, n) ==
    IF Len(seq) <= n THEN seq ELSE SubSeq(seq, Len(seq) - n + 1, Len(seq))

\* C4. Bounded history: the history holds at most 60 snapshots; it is
\* exactly the (up to) 60 most recent snapshots published since the last
\* reset, in the order of their publication, so after 60 or more ticks it
\* holds exactly 60.
C4_BoundedHistory ==
    /\ Len(marketData) <= 60
    /\ marketData = LastN(published, 60)
    /\ (Len(published) >= 60 => Len(marketData) = 60)
    /\ \A i \in 1..(Len(marketData) - 1) :
          marketData[i].timestamp < marketData[i + 1].timestamp

\* more than 60 ticks since the last reset: the oldest were evicted
C4_Witness ==
    /\ Len(published) > 61
    /\ Len(marketData) = 60
    /\ marketData[1] = published[Len(published) - 59]

\* C5. Reset: after reset() midPrice = 1000, cash = 10000, inventory = 0,
\* pnl = 0, trades = 0, volume = 0 and the history is empty (hence a second
\* reset() changes nothing).
C5_Reset ==
    /\ [](lastOp = "reset" =>
            /\ simState.midPrice = 1000 * PriceScale
            /\ simState.cash = 10000 * PriceScale
            /\ simState.inventory = 0
            /\ stats.pnl = 0
            /\ stats.trades = 0
            /\ stats.volume = 0
            /\ marketData = <<>>)
    /\ [][(lastOp = "reset" /\ lastOp' = "reset") => UNCHANGED vars]_vars

\* a reset while running, after ticks
C5_Witness ==
    /\ lastOp = "reset"
    /\ time = MaxTicks
    /\ simRunning

\* C6. Stop halts ticking: while the controller is Idle no timer is armed,
\* and no step other than reset() changes the simulation state, the stats
\* or the history; in particular a timer that was due when stop() ran
\* never fires.
C6_StopHaltsTicking ==
    /\ [](~simRunning => timers = {})
    /\ [][(~simRunning /\ lastOp' # "reset") =>
             UNCHANGED <<simState, stats, marketData, published, time>>]_vars

\* stop() ran while the timer was due, before the last tick allowed
C6_Witness ==
    /\ lastOp = "stop"
    /\ clearedDue
    /\ time > 0
    /\ time < MaxTicks

\* C7. P&L is recomputed every tick: after every tick, with or without a
\* fill, stats.pnl = cash + inventory * midPrice - 10000 on the values the
\* tick published.
C7_PnlEveryTick ==
    lastOp = "tick" =>
        stats.pnl = simState.cash + simState.inventory * simState.midPrice
                    - 10000 * PriceScale

\* C8. Trade accounting: a tick with k >= 1 fills raises trades by k and
\* volume by k times the new midPrice.
C8_TradeAccounting ==
    [][(TickStep /\ FillCount(fills') >= 1) =>
        /\ stats'.trades = stats.trades + FillCount(fills')
        /\ stats'.volume = stats.volume
                           + FillCount(fills') * simState'.midPrice]_vars

ToggleStep == lastOp' \in {"start", "stop"}

ResetStep == lastOp' = "reset"

\* a step of one of the two sliders
SetParamStep == lastOp' \in {"setRiskAversion", "setVolatility"}

\* C11. reset() does not change the Running/Idle status: it leaves
\* simRunning and the armed timer (with its elapsed period) as they are, so
\* while Running the state snaps back to the initial values and the timer
\* keeps ticking from them, and while Idle the controller stays Idle.
C11_ResetKeepsStatus ==
    /\ [][ResetStep =>
            /\ simRunning' = simRunning
            /\ timers' = timers
            /\ interval' = interval
            /\ simState' = InitialSimState]_vars
    /\ []((lastOp = "reset" /\ simRunning) => timers # {})
    /\ []((lastOp = "reset" /\ ~simRunning) => timers = {})

\* a reset while Running with the timer due: the next tick is pending
C11_Witness ==
    /\ lastOp = "reset"
    /\ simRunning
    /\ \E t \in timers : t.due
    /\ time = 1

\* C12. stop() preserves the current state, and start() resumes from it:
\* the start/stop control changes none of midPrice, reservationPrice, bid,
\* ask, inventory, cash, stats, history, riskAversion and volatility.
C12_StopPreservesState ==
    [][ToggleStep =>
        UNCHANGED <<simState, stats, marketData, published, riskAversion,
                    volatility, time>>]_vars

\* a start() after a stop() in a state that is not the initial one
C12_Witness ==
    /\ lastOp = "start"
    /\ Len(marketData) = 1
    /\ simState.inventory # 0
    /\ stats.trades = 1
    /\ simState # InitialSimState

\* C13. Parameter updates take effect on the next tick: the armed callback
\* always holds the riskAversion and volatility most recently set, in Idle
\* no callback is armed and the values are stored, and every tick derives
\* its shock range, skew and half-spread from the values current at the
\* tick.
C13_ParamsTakeEffect ==
    /\ [](\A t \in timers : t.gamma = riskAversion /\ t.sigma = volatility)
    /\ [][TickStep =>
            /\ simState'.midPrice - simState'.reservationPrice
                 = InventorySkew(simState.inventory, riskAversion, volatility)
            /\ simState'.myAsk - simState'.reservationPrice
                 = HalfSpread(volatility)
            /\ simState'.reservationPrice - simState'.myBid
                 = HalfSpread(volatility)
            /\ simState'.midPrice - simState.midPrice
                 >= Shock(0, volatility)
            /\ simState'.midPrice - simState.midPrice
                 < Shock(DrawScale, volatility)]_vars

\* two ticks of one run whose spreads differ: the volatility was changed
\* between them, while Running or across a stop
C13_Witness ==
    /\ lastOp = "tick"
    /\ Len(published) = 2
    /\ published[1].ask - published[1].bid
         # published[2].ask - published[2].bid
    /\ published[2].reservation # published[2].price

ThresholdOne == 10 * ExpScale

\* the thresholds the last tick compared its two fill draws with; they are
\* functions of the quotes and the midPrice the tick published
AskThreshold == FillThreshold(ProbHit(simState.myAsk - simState.midPrice))

BidThreshold == FillThreshold(ProbHit(simState.midPrice - simState.myBid))

\* C15. Fill probabilities are clamped to [0,1]: the two thresholds every
\* tick compares its draws with lie in [0,1].
C15_ThresholdsClamped ==
    lastOp = "tick" =>
        /\ AskThreshold >= 0 /\ AskThreshold <= ThresholdOne
        /\ BidThreshold >= 0 /\ BidThreshold <= ThresholdOne

\* C16. Fixed-draw scenario: with riskAversion 0.1, volatility 0.5 and
\* every draw 0.5, in every state midPrice = 1000, reservationPrice = 1000,
\* inventory = 0, cash = 10000, trades = 0, volume = 0 and no fill has
\* occurred, and after any number of ticks bid = 999.6 and ask = 1000.4.
C16_FixedDraws ==
    /\ simState.midPrice = 1000000
    /\ simState.reservationPrice = 1000000
    /\ simState.inventory = 0
    /\ simState.cash = 10000000
    /\ stats.trades = 0
    /\ stats.volume = 0
    /\ ~fills.ask /\ ~fills.bid
    /\ (Len(published) >= 1 =>
            /\ simState.myBid = 999600
            /\ simState.myAsk = 1000400)
    /\ \A i \in 1..Len(marketData) :
          /\ marketData[i].price = 1000000
          /\ marketData[i].bid = 999600
          /\ marketData[i].ask = 1000400
          /\ marketData[i].inventory = 0

\* more ticks than the history holds, all with the draws 0.5
C16_Witness ==
    /\ lastOp = "tick"
    /\ Len(published) > 60
    /\ riskAversion = 10
    /\ volatility = 5

\* C17. Ticks are not starved by parameter updates: an update of
\* riskAversion or volatility while Running does not cancel or postpone the
\* pending tick, so a timer that is due before the update is still due
\* after it.
C17_PendingTickKept ==
    [][(SetParamStep /\ simRunning /\ (\E t \in timers : t.due))
          => (\E t \in timers' : t.due)]_vars

\* C18. No overlapping ticks: under any interleaving of start, stop, reset
\* and parameter updates at most one periodic timer is armed, one is armed
\* exactly when the controller is Running (and it is the one whose handle
\* the clean-up holds), and a tick happens only on the firing of the armed
\* timer and publishes exactly one complete step.
C18_ArmedTimers ==
    /\ Cardinality(timers) <= 1
    /\ (simRunning <=> timers # {})
    /\ \A t \in timers : t.id = interval
    /\ (~simRunning => interval = 0)

C18_OneTickPerFiring ==
    [][TickStep =>
          /\ simRunning
          /\ \E t \in timers : t.due /\ t.id = interval
          /\ \A t \in timers' : ~t.due
          /\ timers' # {}
          /\ Len(published') = Len(published) + 1]_vars

C18_NoOverlap == []C18_ArmedTimers /\ C18_OneTickPerFiring

\* a parameter update while Running replaced a timer that was due
C18_Witness ==
    /\ simRunning
    /\ clearedDue
    /\ lastOp \in {"setRiskAversion", "setVolatility"}
    /\ Cardinality(timers) = 1
    /\ Len(published) >= 1

FirstTickPending ==
    /\ simState = InitialSimState
    /\ stats = InitialStats
    /\ time = 0
    /\ riskAversion = INITIAL_GAMMA
    /\ volatility = INITIAL_SIGMA
    /\ \E t \in timers : t.due

FillOutcomes == [ask : BOOLEAN, bid : BOOLEAN]

\* C21. Fills per tick: every tick produces at most one ask fill and at
\* most one bid fill, so inventory changes by -1 for an ask fill and +1 for
\* a bid fill, hence by -1, 0 or +1 in all; and from the initial state with
\* the default parameters each of the four outcomes (no fill, ask only, bid
\* only, both) is the outcome of a possible next tick: the two draws are
\* independent.
C21_InventoryStep ==
    [][TickStep =>
          /\ simState'.inventory - simState.inventory \in {0 - 1, 0, 1}
          /\ simState'.inventory =
                simState.inventory - (IF fills'.ask THEN 1 ELSE 0)
                                   + (IF fills'.bid THEN 1 ELSE 0)]_vars

C21_FourOutcomes ==
    FirstTickPending =>
        \A f \in FillOutcomes :
            ENABLED (Tick /\ fills' = f
                          /\ simState'.inventory = (IF f.bid THEN 1 ELSE 0)
                                                   - (IF f.ask THEN 1 ELSE 0))

C21_FillsPerTick == C21_InventoryStep /\ []C21_FourOutcomes

\* the first tick, with the default parameters, filled the ask alone
C21_Witness ==
    /\ lastOp = "tick"
    /\ time = 1
    /\ Len(published) = 1
    /\ riskAversion = INITIAL_GAMMA
    /\ volatility = INITIAL_SIGMA
    /\ fills.ask /\ ~fills.bid
    /\ simState.inventory = 0 - 1

\* the snapshot that shows a simState
Shows(snap, st) ==
    /\ snap.price = st.midPrice
    /\ snap.reservation = st.reservationPrice
    /\ snap.bid = st.myBid
    /\ snap.ask = st.myAsk
    /\ snap.inventory = st.inventory

\* C22. History agrees with the published state: every tick appends exactly
\* one snapshot, whether or not a fill occurred (the oldest one leaving a
\* full history), and in every state with a non-empty history the last
\* snapshot's price, reservation, bid, ask and inventory equal the current
\* midPrice, reservationPrice, myBid, myAsk and inventory.
C22_LastSnapshot ==
    Len(marketData) > 0 => Shows(marketData[Len(marketData)], simState)

C22_OnePerTick ==
    [][TickStep =>
          LET n == Len(marketData)
              kept == IF n < HistoryCapacity THEN marketData
                      ELSE Tail(marketData)
          IN  /\ Len(marketData') = Len(kept) + 1
              /\ SubSeq(marketData', 1, Len(kept)) = kept
              /\ Shows(marketData'[Len(marketData')], simState')
              /\ marketData'[Len(marketData')].timestamp = time']_vars

C22_HistoryAgrees == []C22_LastSnapshot /\ C22_OnePerTick

\* a tick without a fill appended to a full history
C22_Witness ==
    /\ lastOp = "tick"
    /\ ~fills.ask /\ ~fills.bid
    /\ Len(marketData) = HistoryCapacity
    /\ Len(published) > HistoryCapacity
    /\ marketData[HistoryCapacity].price = simState.midPrice
    /\ simState.inventory # 0

\* riskAversion * volatility * 5 in units of price: the skew of one unit
UnitSkew == riskAversion * volatility * 5

\* C23. Quotes use the pre-fill inventory: after every tick
\* reservationPrice = midPrice - q0 * riskAversion * volatility * 5 with q0
\* the inventory before the fills of the tick, so after a tick with exactly
\* one fill the published reservationPrice differs from midPrice -
\* inventory * riskAversion * volatility * 5 (the published inventory) by
\* riskAversion * volatility * 5, and after a tick with no or two fills the
\* two agree.
C23_PreFillInventory ==
    [][TickStep =>
          LET q0 == simState.inventory
              post == simState'.midPrice - simState'.inventory * UnitSkew
          IN  /\ simState'.reservationPrice = simState'.midPrice - q0 * UnitSkew
              /\ (FillCount(fills') = 1 =>
                    /\ Abs(simState'.reservationPrice - post) = UnitSkew
                    /\ simState'.reservationPrice # post)
              /\ (fills'.ask /\ ~fills'.bid =>
                    simState'.reservationPrice = post - UnitSkew)
              /\ (fills'.bid /\ ~fills'.ask =>
                    simState'.reservationPrice = post + UnitSkew)
              /\ (FillCount(fills') # 1 =>
                    simState'.reservationPrice = post)]_vars

\* a tick with a bid fill alone that took the inventory from -1 to 0: the
\* published reservationPrice is off midPrice at inventory 0
C23_Witness ==
    /\ lastOp = "tick"
    /\ fills.bid /\ ~fills.ask
    /\ simState.inventory = 0
    /\ simState.reservationPrice = simState.midPrice + UnitSkew
    /\ Len(published) >= 2
    /\ published[Len(published) - 1].inventory = 0 - 1

\* C24. Inventory is self-limiting: with riskAversion 0.1 and volatility
\* 0.5 held fixed, inventory stays within [-5, 5] in every state, because
\* in a tick that starts at inventory 5 the ask threshold
\* exp(-1.5 * (ask - mid)) * 0.3 exceeds 1 and the ask fills, and in a tick
\* that starts at inventory -5 the bid threshold exceeds 1 and the bid
\* fills.
C24_Within ==
    /\ simState.inventory >= 0 - 5
    /\ simState.inventory <= 5

C24_ForcedFill ==
    [][TickStep =>
          /\ (simState.inventory = 5 =>
                /\ FillThreshold(ProbHit(simState'.myAsk - simState'.midPrice))
                      > ThresholdOne
                /\ fills'.ask
                /\ simState'.inventory \in {4, 5})
          /\ (simState.inventory = 0 - 5 =>
                /\ FillThreshold(ProbHit(simState'.midPrice - simState'.myBid))
                      > ThresholdOne
                /\ fills'.bid
                /\ simState'.inventory \in {0 - 4, 0 - 5})
          /\ (Abs(simState.inventory) < 5 =>
                /\ FillThreshold(ProbHit(simState'.myAsk - simState'.midPrice))
                      < ThresholdOne
                /\ FillThreshold(ProbHit(simState'.midPrice - simState'.myBid))
                      < ThresholdOne)]_vars

C24_SelfLimiting == []C24_Within /\ C24_ForcedFill

\* a tick that started at inventory 5 with the draws 0.99: the ask filled
\* all the same
C24_Witness ==
    /\ lastOp = "tick"
    /\ riskAversion = INITIAL_GAMMA
    /\ volatility = INITIAL_SIGMA
    /\ Len(published) >= 6
    /\ published[Len(published) - 1].inventory = 5
    /\ fills.ask /\ ~fills.bid
    /\ simState.inventory = 4

\* C25. Spread capture: in a tick where both the ask and the bid fill,
\* inventory is unchanged and cash increases by exactly ask - bid = 1.6 *
\* volatility (160 * volatility in the units of the model), which is
\* strictly positive for volatility > 0, whatever the prices are.
C25_SpreadCapture ==
    [][(TickStep /\ fills'.ask /\ fills'.bid) =>
          /\ simState'.inventory = simState.inventory
          /\ simState'.cash - simState.cash = simState'.myAsk - simState'.myBid
          /\ simState'.cash - simState.cash = 160 * volatility
          /\ (volatility > 0 => simState'.cash > simState.cash)]_vars

\* three ticks at volatility 2.0, both quotes filled in each: 3 * 3.2 gained
C25_Witness ==
    /\ lastOp = "tick"
    /\ time = 3
    /\ volatility = SigmaMax
    /\ fills.ask /\ fills.bid
    /\ stats.trades = 3
    /\ simState.inventory = 0
    /\ simState.cash = INITIAL_CASH + 3 * 3200

\* cash + inventory * midPrice - 10000 of the current simState
MarkToMarket == Pnl(simState.cash, simState.inventory, simState.midPrice)

\* C26. Published P&L is stale between fills: stats.pnl changes only in a
\* tick with at least one fill or on reset; a tick with a fill sets it to
\* cash + inventory * midPrice - 10000 of the state it publishes, reset
\* sets it to 0, and a tick without a fill leaves it as it is although
\* midPrice moves; so in every state it is the value of the most recent
\* tick with a fill since the last reset, and 0 if there was none.
C26_PnlSteps ==
    [][/\ (stats'.pnl # stats.pnl =>
              \/ (TickStep /\ FillCount(fills') >= 1)
              \/ ResetStep)
       /\ ((TickStep /\ FillCount(fills') >= 1) =>
              stats'.pnl = Pnl(simState'.cash, simState'.inventory,
                               simState'.midPrice))
       /\ ((TickStep /\ FillCount(fills') = 0) => stats'.pnl = stats.pnl)
       /\ (ResetStep => stats'.pnl = 0)]_vars

C26_PnlOfLastFill ==
    /\ (stats.trades = 0 => stats.pnl = 0)
    /\ ((lastOp = "tick" /\ FillCount(fills) >= 1) => stats.pnl = MarkToMarket)

C26_StalePnl == C26_PnlSteps /\ []C26_PnlOfLastFill

\* a tick without a fill moved midPrice under a non-zero inventory: the
\* published pnl is that of an earlier tick
C26_Witness ==
    /\ lastOp = "tick"
    /\ FillCount(fills) = 0
    /\ stats.trades >= 1
    /\ simState.inventory # 0
    /\ stats.pnl # MarkToMarket

\* C27. Initial and post-reset quotes do not follow the quoting formula:
\* every state published by a tick has ask - bid = 1.6 * volatility for the
\* volatility of that tick, but the initial state and every state after a
\* reset carry the quotes 999.5 and 1000.5 (spread 1.0) and not the 999.6
\* and 1000.4 of the formula at the default volatility 0.5, and reset
\* writes them whatever the current volatility is.
C27_HardCoded ==
    Len(published) = 0 =>
        /\ simState.myBid = 999500
        /\ simState.myAsk = 1000500
        /\ simState.myAsk - simState.myBid = 1000
        /\ simState.myAsk - simState.myBid # 160 * volatility
        /\ simState.myBid # simState.reservationPrice - 80 * INITIAL_SIGMA
        /\ simState.myAsk # simState.reservationPrice + 80 * INITIAL_SIGMA

C27_Steps ==
    [][/\ (TickStep =>
              simState'.myAsk - simState'.myBid = 160 * volatility)
       /\ (ResetStep =>
              /\ simState'.myBid = 999500
              /\ simState'.myAsk = 1000500
              /\ volatility' = volatility)]_vars

C27_InitialQuotes == []C27_HardCoded /\ C27_Steps

\* a reset at volatility 1.0 after ticks that quoted a spread of 1.6
C27_Witness ==
    /\ lastOp = "reset"
    /\ time >= 2
    /\ volatility = 10
    /\ simState.myAsk - simState.myBid = 1000

\* C28. Parameter changes touch no simulation state: setting riskAversion
\* or volatility, Idle or Running, leaves midPrice, reservationPrice, bid,
\* ask, inventory, cash, stats, the history and the Running/Idle status
\* unchanged, so the published quotes keep the spread of the old volatility
\* until the next tick; and reset() leaves riskAversion and volatility
\* unchanged.
C28_ParamFrame ==
    [][/\ (SetParamStep =>
              /\ simState' = simState
              /\ stats' = stats
              /\ marketData' = marketData
              /\ simRunning' = simRunning
              /\ (riskAversion' # riskAversion \/ volatility' # volatility)
              /\ ((lastOp = "tick" /\ volatility' # volatility) =>
                     /\ simState'.myAsk - simState'.myBid = 160 * volatility
                     /\ simState'.myAsk - simState'.myBid # 160 * volatility'))
       /\ (ResetStep =>
              /\ riskAversion' = riskAversion
              /\ volatility' = volatility)]_vars

\* the volatility changed while Running, after a tick: the quotes are
\* still those of the tick
C28_Witness ==
    /\ lastOp = "setVolatility"
    /\ simRunning
    /\ Len(marketData) >= 1
    /\ simState.inventory # 0
    /\ simState.myAsk - simState.myBid # 160 * volatility

-----------------------------------------------------------------------------
(* The second copy of the engine, src/unnamed/part_000, translated on its  *)
(* own.  Its constants dt and drift are declared and never used; its      *)
(* state latency is never read by the simulation.                         *)

\* the period of the interval in src/App.tsx: }, 50)
TickPeriodMs == 50

Part000TickPeriodMs == 50
Part000InitialPrice == 1000 * PriceScale
Part000InitialCash == 10000 * PriceScale
Part000InitialBid == 999500
Part000InitialAsk == 1000500
Part000InitialGamma == 10
Part000InitialSigma == 5
Part000SkewMultiplier == 5
Part000SpreadTenths == 8
Part000DecayTenths == 15
Part000DampeningTenths == 3
Part000HistoryCapacity == 60

Part000InitialSimState ==
    [midPrice |-> Part000InitialPrice,
     reservationPrice |-> Part000InitialPrice,
     inventory |-> 0, cash |-> Part000InitialCash,
     myBid |-> Part000InitialBid, myAsk |-> Part000InitialAsk]

Part000InitialStats == [pnl |-> 0, trades |-> 0, volume |-> 0, latency |-> 0]

\* const shock = (Math.random() - 0.5) * volatility * 2
Part000Shock(u, s) ==
    ((2 * u - DrawScale) * s * PriceScale) \div (DrawScale * SigmaScale)

\* const inventorySkew = prev.inventory * riskAversion * volatility * 5
Part000InventorySkew(inv, g, s) ==
    (inv * g * s * Part000SkewMultiplier * PriceScale)
        \div (GammaScale * SigmaScale)

\* a variant of the engine: a half-spread of 0.5 * volatility
Part000HalfSpreadVariant(s) == (s * 5 * PriceScale) \div (SigmaScale * 10)

\* const halfSpread = volatility * 0.8
Part000HalfSpread(s) ==
    (s * Part000SpreadTenths * PriceScale) \div (SigmaScale * 10)

\* Math.exp(-1.5 * d)
Part000ProbHit(d) ==
    Exp((0 - Part000DecayTenths * d * XScale) \div (10 * PriceScale))

\* Math.random() < probHit * 0.3
Part000Hit(u, prob) ==
    u * ((10 * ExpScale) \div DrawScale) < prob * Part000DampeningTenths

\* the updater of setSimState with the setStats and setMarketData it
\* calls: the simState, stats and chart data after one firing
Part000TickResult(prev, st, data, now, g, s, draws) ==
    LET newMid == prev.midPrice + Part000Shock(draws[1], s)
        newReservation == newMid - Part000InventorySkew(prev.inventory, g, s)
        newBid == newReservation - Part000HalfSpread(s)
        newAsk == newReservation + Part000HalfSpread(s)
        askHit == Part000Hit(draws[2], Part000ProbHit(newAsk - newMid))
        bidHit == Part000Hit(draws[3], Part000ProbHit(newMid - newBid))
        afterAskInv == IF askHit THEN prev.inventory - 1 ELSE prev.inventory
        afterAskCash == IF askHit THEN prev.cash + newAsk ELSE prev.cash
        nextInv == IF bidHit THEN afterAskInv + 1 ELSE afterAskInv
        nextCash == IF bidHit THEN afterAskCash - newBid ELSE afterAskCash
        tradeOccurred == askHit \/ bidHit
        pnl == nextCash + nextInv * newMid - Part000InitialCash
        newData == Append(data, [timestamp |-> now, price |-> newMid,
                                 reservation |-> newReservation,
                                 bid |-> newBid, ask |-> newAsk,
                                 inventory |-> nextInv])
    IN  [simState |-> [midPrice |-> newMid,
                       reservationPrice |-> newReservation,
                       inventory |-> nextInv, cash |-> nextCash,
                       myBid |-> newBid, myAsk |-> newAsk],
         stats |-> IF tradeOccurred
                   THEN [st EXCEPT !.trades = @ + 1, !.volume = @ + newMid,
                                   !.pnl = pnl]
                   ELSE st,
         marketData |-> IF Len(newData) > Part000HistoryCapacity
                        THEN Tail(newData) ELSE newData]

\* the reset button: setStats, setSimState, setMarketData([])
Part000ResetResult ==
    [simState |-> Part000InitialSimState, stats |-> Part000InitialStats,
     marketData |-> <<>>]

\* onClick={() => setSimRunning(!simRunning)}
Part000ToggleResult(running) == ~running

\* the effect of part_000: the clean-up clearInterval(interval), then
\* if (simRunning) interval = window.setInterval(callback, 50)
Part000TimersAfterEffect(ts, handle, running, g, s) ==
    LET cleared == ClearInterval(ts, handle)
    IN  IF running
        THEN cleared \cup {[id |-> FreshHandle(cleared), gamma |-> g,
                            sigma |-> s, due |-> FALSE]}
        ELSE cleared

\* what a step of src/App.tsx publishes
Published == [simState |-> simState, stats |-> stats, marketData |-> marketData]

\* C29. The two engine copies are equivalent: src/App.tsx and
\* src/unnamed/part_000 have the same initial state and the same constants
\* (50 ms period, skew multiplier 5, half-spread 0.8, decay 1.5, dampening
\* 0.3, capacity 60), and for the same previous state, parameters and
\* draws the tick, the reset and the start/stop of part_000 give the
\* simState, stats and history that those of App.tsx give.
C29_SameConstants ==
    /\ Part000TickPeriodMs = TickPeriodMs
    /\ Part000SkewMultiplier = SkewMultiplier
    /\ Part000SpreadTenths = SpreadTenths
    /\ Part000DecayTenths = DecayTenths
    /\ Part000DampeningTenths = DampeningTenths
    /\ Part000HistoryCapacity = HistoryCapacity
    /\ Part000InitialGamma = INITIAL_GAMMA
    /\ Part000InitialSigma = INITIAL_SIGMA
    /\ Part000InitialSimState = InitialSimState
    /\ Part000InitialStats = InitialStats
    /\ (lastOp = "init" =>
          /\ simState = Part000InitialSimState
          /\ stats = Part000InitialStats
          /\ marketData = <<>>
          /\ riskAversion = Part000InitialGamma
          /\ volatility = Part000InitialSigma
          /\ simRunning = FALSE)

C29_SameSteps ==
    [][/\ (TickStep =>
              Part000TickResult(simState, stats, marketData, time',
                                riskAversion, volatility, StreamDraws(time))
                  = Published')
       /\ (ResetStep => Part000ResetResult = Published')
       /\ (ToggleStep =>
              /\ simRunning' = Part000ToggleResult(simRunning)
              /\ Published' = Published)
       /\ ((ToggleStep \/ SetParamStep) =>
              timers' = Part000TimersAfterEffect(timers, interval,
                            simRunning', riskAversion', volatility'))]_vars

C29_CopiesEquivalent == []C29_SameConstants /\ C29_SameSteps

\* a tick with a fill at riskAversion 0.2 that pushed the oldest snapshot
\* out of a full history
C29_Witness ==
    /\ lastOp = "tick"
    /\ riskAversion = 20
    /\ Len(published) > HistoryCapacity
    /\ Len(marketData) = HistoryCapacity
    /\ FillCount(fills) >= 1
    /\ stats.trades >= 2

=============================================================================
